---- MODULE Spec2Model ----
(***************************************************************************)
(* Model of relaxation_technique_sequential.c: Jacobi relaxation of a      *)
(* square matrix held in a flat array, with the mutable rows split into    *)
(* blocks that each own a buffer of new values.                            *)
(*                                                                         *)
(* Numbers.  The doubles of the program are multiples of 4^-c after c      *)
(* relaxation passes.  A double v is kept as the integer v * 2^52, written *)
(* as two limbs <<hi, lo>> = hi * 2^26 + lo with 0 <= lo < 2^26, so that   *)
(* each limb is a 32-bit integer.  For the first 26 passes every sum,      *)
(* difference and division by 4 the program makes is exact in a double     *)
(* (53-bit significand) and is exact here; MaxCycles keeps the model       *)
(* inside that range.  The threshold pow(0.1, p) is not a multiple of      *)
(* 2^-52 and lies further from every such multiple than the rounding error *)
(* of pow, so diff > decimal_value is diff > floor(2^52 / 10^p) here.      *)
(*                                                                         *)
(* Memory.  malloc returns uninitialised memory: the slots of new_values   *)
(* and the entries of the block table that makeBlocks does not assign hold *)
(* whatever the heap held, a nondeterministic choice from GarbageValues    *)
(* and GarbageRanges.  Nothing allocates or frees between makeBlocks and   *)
(* the end of the loop, so a slot keeps the last value stored in it.       *)
(***************************************************************************)
EXTENDS Integers, Sequences, FiniteSets, TLC

\* ---------------------------------------------------------------- bounds
MaxSize == 5
MaxPrecision == 2
MaxPartSize == 8
MaxThreads == 6
\* passes of the while loop the model follows (the doubles are exact)
MaxCycles == 25

\* ------------------------------------------------------------- doubles
Limb == 2^26

Val(hi, lo) == <<hi + (lo \div Limb), lo % Limb>>

Zero == <<0, 0>>
One == <<Limb, 0>>
Half == <<Limb \div 2, 0>>

Plus(a, b) == Val(a[1] + b[1], a[2] + b[2])

Minus(a, b) == Val(a[1] - b[1], a[2] - b[2])

\* a / 4 and a / 10 for a >= 0, rounded down
Quarter(a) == <<a[1] \div 4, ((a[1] % 4) * Limb + a[2]) \div 4>>

Tenth(a) == <<a[1] \div 10, ((a[1] % 10) * Limb + a[2]) \div 10>>

Greater(a, b) == a[1] > b[1] \/ (a[1] = b[1] /\ a[2] > b[2])

Magnitude(a) == IF Greater(Zero, a) THEN Minus(Zero, a) ELSE a

\* argv[1] as main accepts it: 1 has no interior, 3..MaxSize have one.
\* (0 and 2 make line 76 divide by zero and are left out of the inputs.)
Sizes == {1} \cup (3..MaxSize)
Precisions == 1..MaxPrecision
PartSizes == 3..MaxPartSize
ThreadCounts == 1..MaxThreads

\* what an uninitialised double / an unassigned BLOCK can hold
GarbageValues == {Minus(Zero, One), Zero, Quarter(One), Half, One}
GarbageRanges == {<<0, 0>>, <<0, -1>>, <<5, 7>>}

VARIABLES
    matrix_size,        \* int matrix_size
    thread_count,       \* int thread_count
    decimal_precision,  \* int decimal_precision
    matrix,             \* double* matrix : index -> scaled value
    blocks,             \* BLOCK* blocks  : 0..thread_count-1 -> BLOCK
    value_change_flag,  \* int value_change_flag
    pc,                 \* position of main
    i,                  \* the loop index of main's for loop (line 229)
    m_i,                \* the loop index of processBlock (line 119)
    cycles,             \* history: relax passes started
    commits,            \* history: calls of updateMatrix completed
    committed           \* history: the matrix as makeMatrix or the last
                        \* updateMatrix left it

vars == <<matrix_size, thread_count, decimal_precision, matrix, blocks,
          value_change_flag, pc, i, m_i, cycles, commits, committed>>

\* ------------------------------------------------------------ C arithmetic
Abs(x) == IF x < 0 THEN -x ELSE x

\* C's / and % on ints truncate towards zero
CDiv(a, b) ==
    IF (a >= 0) = (b > 0) THEN Abs(a) \div Abs(b) ELSE -(Abs(a) \div Abs(b))

CRem(a, b) == a - b * CDiv(a, b)

\* (int) ceil((double)a / (double)b)
CeilDiv(a, b) ==
    IF CRem(a, b) = 0 THEN CDiv(a, b)
    ELSE IF (a >= 0) = (b > 0) THEN CDiv(a, b) + 1 ELSE CDiv(a, b)

\* decimal_value = pow(0.1, decimal_precision)
RECURSIVE decimal_value(_)
decimal_value(p) == IF p = 0 THEN One ELSE Tenth(decimal_value(p - 1))

\* ------------------------------------------------------------- makeMatrix
\* (variant: the two branches of line 54 are swapped)
makeMatrix_swapped(n) ==
    [idx \in 0..(n * n - 1) |->
        IF CDiv(idx, n) = 0 \/ CRem(idx, n) = 0 THEN Zero ELSE One]

makeMatrix(n) ==
    [idx \in 0..(n * n - 1) |->
        IF CDiv(idx, n) = 0 \/ CRem(idx, n) = 0 THEN One ELSE Zero]

\* ------------------------------------------------------------- makeBlocks
mutatable_indexes_count(n) == n * n - n * 2

equal_block_size(n, t) == CeilDiv(mutatable_indexes_count(n), t)

last_block_size(n, t) ==
    CRem(mutatable_indexes_count(n), equal_block_size(n, t))

equal_block_count(n, t) ==
    CDiv(mutatable_indexes_count(n) - last_block_size(n, t),
         equal_block_size(n, t))

\* a BLOCK: its range, the buffer (slots 0..end-start are the ones the
\* program uses), the number of slots malloc was asked for, and whether
\* makeBlocks stored the entry at all
Block(s, e, asked, fill, isSet) ==
    [start_index |-> s, end_index |-> e,
     new_values |-> [b \in 0..(e - s) |-> fill],
     alloc |-> asked, assigned |-> isSet]

makeBlocks(n, t, junk, fill) ==
    LET E == equal_block_size(n, t)
        R == last_block_size(n, t)
        C == equal_block_count(n, t)
        M == mutatable_indexes_count(n)
    IN  [k \in 0..(t - 1) |->
            IF R # 0 /\ k = t - 1
            THEN Block(n + M - R, n * n - n - 1,
                       (n * n - n - 1) - (n + M - R), fill, TRUE)
            ELSE IF k < C
            THEN Block(n + E * k, n + E * (k + 1) - 1,
                       (n + E * (k + 1) - 1) - (n + E * k), fill, TRUE)
            ELSE Block(junk[1], junk[2], 0, fill, FALSE)]

\* --------------------------------------------------- getSuroundingAverage
getSuroundingAverage(mat, n, index) ==
    Quarter(Plus(Plus(Plus(mat[index - n], mat[index + 1]), mat[index + n]),
                 mat[index - 1]))

\* ----------------------------------------------------------- processBlock
\* (variant: only the right column is kept as is)
NotEdge_rightColumnOnly(n, idx) == CRem(idx + 1, n) # 0

\* "keep any edge value as is": the test of lines 125 and 152
NotEdge(n, idx) == CRem(idx, n) # 0 /\ CRem(idx + 1, n) # 0

\* (variant: any increase counts, the threshold is not used)
Changed_noThreshold(new_value, old_value, p) ==
    Greater(Minus(new_value, old_value), Zero)

\* diff > decimal_value (lines 127-128)
Changed(new_value, old_value, p) ==
    Greater(Minus(new_value, old_value), decimal_value(p))

\* (variant: line 131 adds to the slot, += for =)
processCell_accumulate(mat, n, p, block, flag, idx) ==
    LET b_i == idx - block.start_index
    IN  IF NotEdge(n, idx)
        THEN LET new_value == getSuroundingAverage(mat, n, idx)
             IN  [block |-> [block EXCEPT
                                !.new_values[b_i] = Plus(@, new_value)],
                  flag |-> IF Changed(new_value, block.new_values[b_i], p)
                           THEN 1 ELSE flag]
        ELSE [block |-> [block EXCEPT !.new_values[b_i] = mat[idx]],
              flag |-> flag]

\* (variant: the new value is stored only when the test succeeds)
processCell_storeIfChanged(mat, n, p, block, flag, idx) ==
    LET b_i == idx - block.start_index
    IN  IF NotEdge(n, idx)
        THEN LET new_value == getSuroundingAverage(mat, n, idx)
             IN  IF Changed(new_value, block.new_values[b_i], p)
                 THEN [block |-> [block EXCEPT !.new_values[b_i] = new_value],
                       flag |-> 1]
                 ELSE [block |-> block, flag |-> flag]
        ELSE [block |-> [block EXCEPT !.new_values[b_i] = mat[idx]],
              flag |-> flag]

\* (variant: the flag is assigned the outcome of each test, 0 included)
processCell_overwriteFlag(mat, n, p, block, flag, idx) ==
    LET b_i == idx - block.start_index
    IN  IF NotEdge(n, idx)
        THEN LET new_value == getSuroundingAverage(mat, n, idx)
             IN  [block |-> [block EXCEPT !.new_values[b_i] = new_value],
                  flag |-> IF Changed(new_value, block.new_values[b_i], p)
                           THEN 1 ELSE 0]
        ELSE [block |-> [block EXCEPT !.new_values[b_i] = mat[idx]],
              flag |-> flag]

\* the body of the for loop of processBlock (lines 121-134) at index idx
processCell(mat, n, p, block, flag, idx) ==
    LET b_i == idx - block.start_index
    IN  IF NotEdge(n, idx)
        THEN LET new_value == getSuroundingAverage(mat, n, idx)
             IN  [block |-> [block EXCEPT !.new_values[b_i] = new_value],
                  flag |-> IF Changed(new_value, block.new_values[b_i], p)
                           THEN 1 ELSE flag]
        ELSE [block |-> [block EXCEPT !.new_values[b_i] = mat[idx]],
              flag |-> flag]

\* processBlock as a whole: the loop of line 119 from idx to end_index
RECURSIVE processBlockFrom(_, _, _, _, _, _)
processBlockFrom(mat, n, p, block, flag, idx) ==
    IF idx > block.end_index THEN [block |-> block, flag |-> flag]
    ELSE LET r == processCell(mat, n, p, block, flag, idx)
         IN  processBlockFrom(mat, n, p, r.block, r.flag, idx + 1)

processBlock(mat, n, p, block, flag) ==
    processBlockFrom(mat, n, p, block, flag, block.start_index)

\* ----------------------------------------------------------- updateMatrix
\* (variant: b_i is one slot off)
RECURSIVE updateBlock_slotOffByOne(_, _, _, _)
updateBlock_slotOffByOne(mat, n, block, idx) ==
    IF idx > block.end_index THEN mat
    ELSE updateBlock_slotOffByOne(
            IF NotEdge(n, idx)
            THEN [mat EXCEPT
                    ![idx] = block.new_values[idx - block.start_index - 1]]
            ELSE mat,
            n, block, idx + 1)

\* the inner loop of updateMatrix (lines 146-156) for one block
RECURSIVE updateBlock(_, _, _, _)
updateBlock(mat, n, block, idx) ==
    IF idx > block.end_index THEN mat
    ELSE updateBlock(
            IF NotEdge(n, idx)
            THEN [mat EXCEPT ![idx] = block.new_values[idx - block.start_index]]
            ELSE mat,
            n, block, idx + 1)

RECURSIVE updateMatrixFrom(_, _, _, _, _)
updateMatrixFrom(mat, n, t, blks, k) ==
    IF k >= t THEN mat
    ELSE updateMatrixFrom(updateBlock(mat, n, blks[k], blks[k].start_index),
                          n, t, blks, k + 1)

updateMatrix(mat, n, t, blks) == updateMatrixFrom(mat, n, t, blks, 0)

\* ------------------------------------------------------------------ main
\* lines 204-207: the globals as main sets them before makeMatrix
Init ==
    /\ matrix_size \in Sizes
    /\ thread_count = 1
    /\ decimal_precision \in Precisions
    /\ matrix = <<>>
    /\ blocks = <<>>
    /\ value_change_flag = 0
    /\ pc = "makeMatrix"
    /\ i = 0
    /\ m_i = 0
    /\ cycles = 0
    /\ commits = 0
    /\ committed = <<>>

\* line 220
MakeMatrix ==
    /\ pc = "makeMatrix"
    /\ matrix' = makeMatrix(matrix_size)
    /\ committed' = matrix'
    /\ pc' = "makeBlocks"
    /\ UNCHANGED <<matrix_size, thread_count, decimal_precision, blocks,
                   value_change_flag, i, m_i, cycles, commits>>

\* lines 222-224
MakeBlocks ==
    /\ pc = "makeBlocks"
    /\ \E junk \in GarbageRanges, fill \in GarbageValues :
          blocks' = makeBlocks(matrix_size, thread_count, junk, fill)
    /\ value_change_flag' = 0
    /\ pc' = "while"
    /\ UNCHANGED <<committed, matrix_size, thread_count, decimal_precision,
                   matrix,
                   i, m_i, cycles, commits>>

\* lines 226-229: a pass of the while loop starts its for loop
StartPass ==
    /\ pc = "while"
    /\ cycles < MaxCycles
    /\ i' = 0
    /\ cycles' = cycles + 1
    /\ pc' = "for"
    /\ UNCHANGED <<committed, matrix_size, thread_count, decimal_precision,
                   matrix,
                   blocks, value_change_flag, m_i, commits>>

\* lines 229-230 and 116-119: processBlock(&blocks[i]) is entered
CallProcessBlock ==
    /\ pc = "for"
    /\ i < thread_count
    /\ m_i' = blocks[i].start_index
    /\ pc' = "processBlock"
    /\ UNCHANGED <<committed, matrix_size, thread_count, decimal_precision,
                   matrix,
                   blocks, value_change_flag, i, cycles, commits>>

\* (variant: the new value is also stored into the matrix at once)
ProcessCell_inPlace ==
    /\ pc = "processBlock"
    /\ m_i <= blocks[i].end_index
    /\ LET r == processCell(matrix, matrix_size, decimal_precision,
                            blocks[i], value_change_flag, m_i)
       IN  /\ blocks' = [blocks EXCEPT ![i] = r.block]
           /\ value_change_flag' = r.flag
           /\ matrix' = [matrix EXCEPT
                            ![m_i] = r.block.new_values[m_i - blocks[i].start_index]]
    /\ m_i' = m_i + 1
    /\ UNCHANGED <<committed, matrix_size, thread_count, decimal_precision,
                   pc, i, cycles, commits>>

\* lines 119-136: one iteration of the loop of processBlock
ProcessCell ==
    /\ pc = "processBlock"
    /\ m_i <= blocks[i].end_index
    /\ LET r == processCell(matrix, matrix_size, decimal_precision,
                            blocks[i], value_change_flag, m_i)
       IN  /\ blocks' = [blocks EXCEPT ![i] = r.block]
           /\ value_change_flag' = r.flag
    /\ m_i' = m_i + 1
    /\ UNCHANGED <<committed, matrix_size, thread_count, decimal_precision,
                   matrix,
                   pc, i, cycles, commits>>

\* lines 119, 138 and 229: the loop of processBlock ends, i++
ReturnProcessBlock ==
    /\ pc = "processBlock"
    /\ m_i > blocks[i].end_index
    /\ i' = i + 1
    /\ pc' = "for"
    /\ UNCHANGED <<committed, matrix_size, thread_count, decimal_precision,
                   matrix,
                   blocks, value_change_flag, m_i, cycles, commits>>

\* (variant: updateMatrix is called before the flag is tested)
Break_commitFirst ==
    /\ pc = "for"
    /\ i >= thread_count
    /\ value_change_flag = 0
    /\ matrix' = updateMatrix(matrix, matrix_size, thread_count, blocks)
    /\ commits' = commits + 1
    /\ pc' = "done"
    /\ UNCHANGED <<committed, matrix_size, thread_count, decimal_precision,
                   blocks, value_change_flag, i, m_i, cycles>>

\* (variant: the flag is tested inside the for loop)
Break_insideFor ==
    /\ pc = "for"
    /\ value_change_flag = 0
    /\ pc' = "done"
    /\ UNCHANGED <<committed, matrix_size, thread_count, decimal_precision,
                   matrix, blocks, value_change_flag, i, m_i, cycles, commits>>

\* lines 239-240: the for loop is over and the flag is 0
Break ==
    /\ pc = "for"
    /\ i >= thread_count
    /\ value_change_flag = 0
    /\ pc' = "done"
    /\ UNCHANGED <<committed, matrix_size, thread_count, decimal_precision,
                   matrix,
                   blocks, value_change_flag, i, m_i, cycles, commits>>

\* lines 241-243: the for loop is over and the flag is set
ResetFlag ==
    /\ pc = "for"
    /\ i >= thread_count
    /\ value_change_flag # 0
    /\ value_change_flag' = 0
    /\ pc' = "update"
    /\ UNCHANGED <<committed, matrix_size, thread_count, decimal_precision,
                   matrix,
                   blocks, i, m_i, cycles, commits>>

\* line 246
UpdateMatrix ==
    /\ pc = "update"
    /\ matrix' = updateMatrix(matrix, matrix_size, thread_count, blocks)
    /\ commits' = commits + 1
    /\ committed' = matrix'
    /\ pc' = "while"
    /\ UNCHANGED <<matrix_size, thread_count, decimal_precision, blocks,
                   value_change_flag, i, m_i, cycles>>

Next ==
    \/ MakeMatrix
    \/ MakeBlocks
    \/ StartPass
    \/ CallProcessBlock
    \/ ProcessCell
    \/ ReturnProcessBlock
    \/ Break
    \/ ResetFlag
    \/ UpdateMatrix

Spec == Init /\ [][Next]_vars

\* main is sequential code: a step that can be taken is taken
FairSpec == Spec /\ WF_vars(Next)

\* ------------------------------------------- makeBlocks as a function of
\* matrix_size and thread_count, for every pair within the bounds
InitBlocks ==
    /\ matrix_size \in PartSizes
    /\ thread_count \in ThreadCounts
    /\ decimal_precision = 1
    /\ matrix = <<>>
    /\ blocks = <<>>
    /\ value_change_flag = 0
    /\ pc = "partition"
    /\ i = 0
    /\ m_i = 0
    /\ cycles = 0
    /\ commits = 0
    /\ committed = <<>>

Partition ==
    /\ pc = "partition"
    /\ \E junk \in GarbageRanges, fill \in GarbageValues :
          blocks' = makeBlocks(matrix_size, thread_count, junk, fill)
    /\ pc' = "partitioned"
    /\ UNCHANGED <<committed, matrix_size, thread_count, decimal_precision,
                   matrix,
                   value_change_flag, i, m_i, cycles, commits>>

NextBlocks == Partition

SpecBlocks == InitBlocks /\ [][NextBlocks]_vars

\* ================================================================ claims
Row(n, idx) == CDiv(idx, n)
Col(n, idx) == CRem(idx, n)
Relaxing == pc \in {"for", "processBlock"}

\* C1 - Boundary invariance: for every size >= 3, once makeMatrix has run,
\* after every step of a relax pass, after every updateMatrix and at the
\* end, every cell in row 0 or column 0 is 1.0.
BoundaryInvariance ==
    (matrix_size >= 3 /\ pc # "makeMatrix") =>
        \A idx \in DOMAIN matrix :
            (Row(matrix_size, idx) = 0 \/ Col(matrix_size, idx) = 0)
                => matrix[idx] = One

BoundaryAfterCommits ==
    /\ matrix_size = 4
    /\ pc = "done"
    /\ commits >= 2
    /\ matrix[0] = One /\ matrix[4] = One /\ matrix[5] # Zero

\* C2 - Partition completeness and disjointness: for every size >= 3 and
\* every thread_count >= 1, the ranges of the thread_count blocks that
\* makeBlocks returns are non-empty, pairwise disjoint, and their union is
\* exactly matrix_size .. matrix_size*matrix_size - matrix_size - 1.
BlockRange(block) == block.start_index .. block.end_index

MutableRange(n) == n .. (n * n - n - 1)

PartitionCompleteDisjoint ==
    pc = "partitioned" =>
        /\ \A k \in DOMAIN blocks : BlockRange(blocks[k]) # {}
        /\ \A k, l \in DOMAIN blocks :
              k # l => BlockRange(blocks[k]) \cap BlockRange(blocks[l]) = {}
        /\ UNION {BlockRange(blocks[k]) : k \in DOMAIN blocks}
              = MutableRange(matrix_size)

\* C3 - Stop without commit: the loop is left exactly when a relax pass
\* ends with the flag at 0; at the end the matrix is as the previous commit
\* (or makeMatrix) left it and one commit fewer than relax passes was made.
StopWithoutCommit ==
    /\ [][(pc = "for" /\ i >= thread_count)
            => ((pc' = "done") <=> (value_change_flag = 0))]_vars
    /\ [](pc = "done" => (matrix = committed /\ commits = cycles - 1))

StoppedAfterCommits ==
    /\ pc = "done"
    /\ matrix_size = 4
    /\ cycles >= 3
    /\ commits = cycles - 1
    /\ matrix = committed

PassComplete(k) ==
    blocks[k].new_values =
        [b \in 0..(blocks[k].end_index - blocks[k].start_index) |->
            IF NotEdge(matrix_size, blocks[k].start_index + b)
            THEN getSuroundingAverage(matrix, matrix_size,
                                      blocks[k].start_index + b)
            ELSE matrix[blocks[k].start_index + b]]

FromRows(cells) == [idx \in 0..(Len(cells) - 1) |-> cells[idx + 1]]

ConcreteScenario ==
    (matrix_size = 3 /\ decimal_precision = 2 /\ thread_count = 1) =>
        /\ pc = "makeBlocks" =>
              matrix = FromRows(<<One, One, One, One, Zero, Zero, One, Zero, Zero>>)
        /\ pc = "done" =>
              /\ cycles = 2
              /\ commits = 1
              /\ matrix = FromRows(<<One, One, One, One, Half, Zero, One, Zero, Zero>>)

\* C7 - Change detection uses the absolute difference: a step of
\* processBlock raises the flag exactly when the index is not on the left
\* or right column and |new - previous| > threshold (a flag already raised
\* stays raised).
AbsoluteChangeDetection ==
    [][(pc = "processBlock" /\ m_i <= blocks[i].end_index) =>
          (value_change_flag' = 1 <=>
              \/ value_change_flag = 1
              \/ /\ NotEdge(matrix_size, m_i)
                 /\ Greater(
                      Magnitude(Minus(
                        getSuroundingAverage(matrix, matrix_size, m_i),
                        blocks[i].new_values[m_i - blocks[i].start_index])),
                      decimal_value(decimal_precision)))]_vars

\* C8 - Termination by convergence: for every size >= 3 the loop reaches a
\* pass in which no block raises the flag, and ends.
Termination == (matrix_size >= 3) ~> (pc = "done")

ConvergedAfterSeveralCycles ==
    /\ pc = "done"
    /\ matrix_size = 4
    /\ decimal_precision = 2
    /\ cycles = 6
    /\ value_change_flag = 0

\* C9 - Idempotence after convergence: right after a pass that raised no
\* flag, processBlock on every block once more on the same matrix raises
\* no flag and leaves every slot of new_values as it is.
NoChangeReported ==
    \/ pc = "done"
    \/ (pc = "for" /\ i >= thread_count /\ value_change_flag = 0)

IdempotentAfterConvergence ==
    NoChangeReported =>
        \A k \in 0..(thread_count - 1) :
            LET r == processBlock(matrix, matrix_size, decimal_precision,
                                  blocks[k], 0)
            IN  r.flag = 0 /\ r.block = blocks[k]

ConvergedWithMovedCells ==
    /\ pc = "done"
    /\ matrix_size = 4
    /\ commits >= 2
    /\ blocks[0].new_values[1] # matrix[5]

\* C10 - Size validation: for a size < 3 no matrix is created, no block is
\* built and no relax pass starts.
SizeValidation ==
    matrix_size < 3 =>
        /\ matrix = <<>>
        /\ blocks = <<>>
        /\ cycles = 0
        /\ pc \in {"makeMatrix", "partition"}

\* C11 - Partition validation: when thread_count exceeds the number
\* M = size*size - 2*size of mutable indexes, makeBlocks fails and returns
\* no block table (no empty, negative-sized or unassigned range).
PartitionValidation ==
    thread_count > mutatable_indexes_count(matrix_size) => blocks = <<>>

\* C12 - Partition balance: for 1 <= thread_count <= M the sizes
\* end_index - start_index + 1 of any two blocks of the table differ by at
\* most one.
BlockSize(block) == block.end_index - block.start_index + 1

PartitionBalance ==
    (pc = "partitioned"
        /\ thread_count <= mutatable_indexes_count(matrix_size)) =>
        \A k, l \in DOMAIN blocks :
            BlockSize(blocks[k]) - BlockSize(blocks[l]) <= 1

\* C13 - Flag aggregation: the flag is 0 when a relax pass starts, a step of
\* processBlock leaves it at 1 exactly when it was 1 already or the step's
\* own test diff > decimal_value succeeded, and nothing but the reset after
\* the test of line 239 clears it; so the flag read after the pass is 1 iff
\* some block signalled change in this pass.
Signalled(block, idx) ==
    /\ NotEdge(matrix_size, idx)
    /\ Changed(getSuroundingAverage(matrix, matrix_size, idx),
               block.new_values[idx - block.start_index],
               decimal_precision)

ScratchBufferBounds ==
    \A k \in DOMAIN blocks :
        (matrix_size >= 3 /\ blocks[k].assigned) =>
            /\ blocks[k].alloc = blocks[k].end_index - blocks[k].start_index + 1
            /\ \A idx \in BlockRange(blocks[k]) :
                  0 <= idx - blocks[k].start_index
                  /\ idx - blocks[k].start_index < blocks[k].alloc

\* C15 - Commit effect and frame: updateMatrix sets every cell that lies in
\* a block's range and is not on the left or right column to that block's
\* slot for the index, leaves every other cell as it was, and changes no
\* block (range or new_values).
CommitEffectAndFrame ==
    [][pc = "update" =>
          /\ DOMAIN matrix' = DOMAIN matrix
          /\ \A idx \in DOMAIN matrix :
                IF NotEdge(matrix_size, idx)
                   /\ \E k \in DOMAIN blocks : idx \in BlockRange(blocks[k])
                THEN \A k \in DOMAIN blocks :
                        idx \in BlockRange(blocks[k]) =>
                            matrix'[idx] =
                                blocks[k].new_values[idx - blocks[k].start_index]
                ELSE matrix'[idx] = matrix[idx]
          /\ blocks' = blocks]_vars

CommittedNewValues ==
    /\ pc = "while"
    /\ matrix_size = 5
    /\ commits = 2
    /\ matrix[6] = blocks[0].new_values[1]
    /\ matrix[6] # Zero
    /\ matrix[12] # Zero
    /\ matrix[9] = Zero

\* C16 - Relax step result: every slot that processBlock has passed holds
\* the matrix value of its index when the index is on the left or right
\* column, and otherwise the average of the four neighbours in the matrix
\* as it was before the pass, whether or not the flag was raised.
ExpectedSlot(mat, idx) ==
    IF idx % matrix_size = 0 \/ (idx + 1) % matrix_size = 0
    THEN mat[idx]
    ELSE Quarter(Plus(Plus(Plus(mat[idx - matrix_size], mat[idx + 1]),
                           mat[idx + matrix_size]), mat[idx - 1]))

RelaxStepResult ==
    (matrix_size >= 3 /\ pc = "processBlock") =>
        \A idx \in blocks[i].start_index .. (m_i - 1) :
            blocks[i].new_values[idx - blocks[i].start_index]
                = ExpectedSlot(committed, idx)

QuietPassStoredAverages ==
    /\ pc = "processBlock"
    /\ matrix_size = 4
    /\ m_i > blocks[i].end_index
    /\ value_change_flag = 0
    /\ commits >= 2
    /\ blocks[i].new_values[1] # matrix[5]

\* C17 - Block table fully populated: for every size >= 3 and
\* thread_count >= 1, makeBlocks assigns each of the entries
\* blocks[0..thread_count-1].
BlockTablePopulated ==
    pc = "partitioned" =>
        /\ DOMAIN blocks = 0..(thread_count - 1)
        /\ \A k \in DOMAIN blocks : blocks[k].assigned

\* C18 - Zero-initialised scratch: every slot of every new_values holds 0.0
\* from makeBlocks until the first relax pass writes it.
Unwritten(k, b) ==
    \/ (pc = "while" /\ cycles = 0)
    \/ (pc = "for" /\ cycles = 1 /\ k >= i)
    \/ (pc = "processBlock" /\ cycles = 1
          /\ (k > i \/ (k = i /\ b >= m_i - blocks[k].start_index)))

ZeroInitialisedScratch ==
    \A k \in DOMAIN blocks :
        \A b \in DOMAIN blocks[k].new_values :
            (matrix_size >= 3 /\ Unwritten(k, b)) =>
                blocks[k].new_values[b] = Zero

\* C19 - Neighbour reads stay inside the matrix: every index of an assigned
\* block for which processBlock calls getSuroundingAverage has its upper
\* and lower neighbour inside 0..size*size-1 and its left and right
\* neighbour in its own row.
ReadsInsideMatrix(n, idx) ==
    /\ 0 <= idx - n
    /\ idx + n <= n * n - 1
    /\ (idx - 1) \div n = idx \div n
    /\ (idx + 1) \div n = idx \div n

NeighbourReadsInGrid ==
    matrix_size >= 3 =>
        \A k \in DOMAIN blocks :
            blocks[k].assigned =>
                \A idx \in BlockRange(blocks[k]) :
                    NotEdge(matrix_size, idx) =>
                        ReadsInsideMatrix(matrix_size, idx)

AveragingCentreCell ==
    /\ pc = "processBlock"
    /\ matrix_size = 5
    /\ m_i = 12
    /\ NotEdge(matrix_size, m_i)
    /\ ReadsInsideMatrix(matrix_size, m_i)

\* C20 - Bounded, monotone values: every matrix cell and every written slot
\* of new_values lies in [0, 1]; no matrix cell decreases in a commit; and
\* wherever the previous slot value is a written one or the 0.0 of a
\* zero-initialised buffer, the signed test new - previous > threshold
\* gives the same answer as the absolute test.
InUnit(v) == ~Greater(Zero, v) /\ ~Greater(v, One)

SignedAgreesWithAbsolute(new_value, old_value) ==
    Changed(new_value, old_value, decimal_precision)
        <=> Greater(Magnitude(Minus(new_value, old_value)),
                    decimal_value(decimal_precision))

BoundedMonotoneValues ==
    /\ [](matrix_size >= 3 =>
            /\ \A idx \in DOMAIN matrix : InUnit(matrix[idx])
            /\ \A k \in DOMAIN blocks :
                  \A b \in DOMAIN blocks[k].new_values :
                      ~Unwritten(k, b) => InUnit(blocks[k].new_values[b]))
    /\ [][pc = "update" =>
            \A idx \in DOMAIN matrix : ~Greater(matrix[idx], matrix'[idx])]_vars
    /\ []((/\ matrix_size >= 3
           /\ pc = "processBlock"
           /\ m_i <= blocks[i].end_index
           /\ NotEdge(matrix_size, m_i)
           /\ (cycles >= 2
                 \/ blocks[i].new_values[m_i - blocks[i].start_index] = Zero))
          => SignedAgreesWithAbsolute(
                getSuroundingAverage(matrix, matrix_size, m_i),
                blocks[i].new_values[m_i - blocks[i].start_index]))

GrownInsideUnitInterval ==
    /\ pc = "processBlock"
    /\ matrix_size = 5
    /\ commits >= 3
    /\ m_i = 12
    /\ Greater(matrix[12], Zero)
    /\ Greater(getSuroundingAverage(matrix, matrix_size, 12),
               blocks[0].new_values[12 - blocks[0].start_index])
    /\ Greater(One, matrix[6])

====
